---- MODULE Spec2Model ----
(***************************************************************************)
(* Model of be/src/exprs/aggregate-functions.cc (Impala): the builtin      *)
(* aggregate functions.  Three families share one accumulator lifecycle    *)
(* (Init, Update*, Merge*, Serialize/Finalize):                            *)
(*   - text accumulators backed by StringValScratch (Min, Max,             *)
(*     StringConcat over StringVal),                                       *)
(*   - the distinct-count sketch (PcInit, PcUpdate, PcsaUpdate, PcMerge,   *)
(*     PcFinalize, PcsaFinalize),                                          *)
(*   - scalar accumulators (Sum, Min, Max, Count).                         *)
(* DCHECKs are modelled as they behave in a debug build: a failing DCHECK  *)
(* aborts the process.                                                     *)
(***************************************************************************)
EXTENDS Integers, Sequences, FiniteSets, TLC

VARIABLES
    agg,        \* the aggregate function the accumulators of this run belong to
    hs,         \* per handle: "none" (no Init yet), "live", "done" (serialized/finalized)
    scratch,    \* per handle: the StringValScratch object (buffer_len, str_len, buffer)
    ctxmem,     \* per handle: the regions the FunctionContext handed out for it
    result,     \* per handle: the StringVal returned by the last SerializeScratch
    sk,         \* per handle: the sketch's StringVal slot (is_null, len, ptr)
    bitmap,     \* per handle: the bytes of the region PcInit allocated for it
    fin,        \* per handle: the StringVal returned by the last Pc(sa)Finalize
    access,     \* the input of the most recent sketch call and the bit_index values
                \* it passed to SetDistinctEstimateBit / GetDistinctEstimateBit (history)
    acc,        \* per handle: the scalar accumulator (is_null, val)
    seen,       \* per handle: the non-null inputs it received, own or merged (history)
    calls,      \* per handle: the StringConcat calls with a non-null value (history)
    total,      \* per handle: the arithmetic sum of its non-null inputs (history)
    nrows,      \* per handle: number of rows fed to it by the Count functions (history)
    ncalls,     \* per handle: number of calls with a non-null input made on it (history)
    nundef,     \* number of PcsaUpdate calls that took __builtin_ctz of zero (history)
    last,       \* the most recent call and how it ended
    aborted     \* TRUE once a DCHECK failed or the process crashed

sketchvars == <<sk, bitmap, fin, nundef, access>>
scalarvars == <<acc, total, nrows>>
textvars == <<scratch, ctxmem, result, calls>>
vars == <<agg, hs, scratch, ctxmem, result, sk, bitmap, fin, acc, seen, calls, total,
          ncalls, nundef, last, aborted, access, nrows>>

----------------------------------------------------------------------------
(* Bounds of the model. *)

\* Update/Merge calls with a non-null input made on one accumulator.
MaxCalls == 2

\* StringConcat calls with a non-null value made on one accumulator.
MaxConcatCalls == 3

\* PcsaUpdate calls of one run whose hash is in 1..63.
MaxUndef == 1

\* Rows fed to one Count accumulator.
MaxRows == 4

\* Single-byte Append calls made on one StringValScratch.
MaxAppends == 120

\* Set and Append calls made on one StringValScratch.
MaxScratchOps == 4

\* The accumulators of one run: a partition (1) and the destination (2) its
\* result is merged into.
Handles == {1, 2}

Destination == CHOOSE d \in Handles : \A h \in Handles : h <= d

----------------------------------------------------------------------------
(* Values. *)

\* A StringVal: is_null, and the bytes ptr[0, len) when it is not null.
NullStr == [is_null |-> TRUE, val |-> <<>>]

Str(b) == [is_null |-> FALSE, val |-> b]

\* A byte of an allocated region that nothing has written yet.
Undef == -1

\* The inputs of the text Min/Max runs: "", "a", "ab", "b" and NULL.
MinMaxInputs == {NullStr, Str(<<>>), Str(<<97>>), Str(<<97, 98>>), Str(<<98>>)}

\* The values and separators of the StringConcat runs.
ConcatValues == {NullStr, Str(<<>>), Str(<<97>>), Str(<<98, 99>>)}

ConcatSeparators == {NullStr, Str(<<>>), Str(<<45>>)}

\* ", ": the delimiter used when the separator is NULL.
DEFAULT_STRING_CONCAT_DELIM == Str(<<44, 32>>)

----------------------------------------------------------------------------
(* StringValue ordering (runtime/string-value.h): lexicographic over bytes. *)

RECURSIVE StringLess(_, _)
StringLess(a, b) ==
    IF Len(b) = 0 THEN FALSE
    ELSE IF Len(a) = 0 THEN TRUE
    ELSE IF Head(a) /= Head(b) THEN Head(a) < Head(b)
    ELSE StringLess(Tail(a), Tail(b))

----------------------------------------------------------------------------
(* StringValScratch and the Memory Context.  A scratch state st is          *)
(* [s |-> the StringValScratch fields, m |-> the regions of the context].   *)
(* buffer is 0 for NULL, else the index of its region in m.                 *)

NewScratch == [buffer_len |-> 0, str_len |-> 0, buffer |-> 0]

\* ctx->Allocate(n): a new region of n bytes of indeterminate content.
\* frees counts the ctx->Free calls the region was handed to; stale tells
\* that it was read or written after it was freed.
Allocate(m, n) ==
    Append(m, [size |-> n, bytes |-> [i \in 1..n |-> Undef], freed |-> FALSE,
               frees |-> 0, stale |-> FALSE])

\* ctx->Free(p): Free(NULL) does nothing; a freed region keeps no content.
Free(m, p) ==
    IF p = 0 THEN m
    ELSE [m EXCEPT ![p] = [size |-> m[p].size,
                           bytes |-> [i \in 1..m[p].size |-> Undef],
                           freed |-> TRUE,
                           frees |-> m[p].frees + 1,
                           stale |-> m[p].stale]]

\* memcpy(dst + off, src, n) into region p; with n = 0 nothing is touched.
Memcpy(m, p, off, src, n) ==
    IF n = 0 THEN m
    ELSE [m EXCEPT ![p].bytes =
                      [i \in 1..m[p].size |->
                          IF i > off /\ i <= off + n THEN src[i - off] ELSE m[p].bytes[i]],
                   ![p].stale = @ \/ m[p].freed]

\* The read side of memcpy(.., src, n) from region p.
MemRead(m, p, n) ==
    IF n = 0 \/ p = 0 THEN m
    ELSE [m EXCEPT ![p].stale = @ \/ m[p].freed]

\* buffer[0, str_len): the current string.
Contents(st) ==
    IF st.s.buffer = 0 THEN <<>>
    ELSE SubSeq(st.m[st.s.buffer].bytes, 1, st.s.str_len)

\* ResizeBufferTo without new_len += new_len / 2: the buffer fits exactly.
ResizeBufferToExact(st, new_len, copy) ==
    IF new_len <= st.s.buffer_len THEN st
    ELSE LET m1 == Allocate(st.m, new_len)
             new_buffer == Len(m1)
             m2 == IF copy
                   THEN Memcpy(m1, new_buffer, 0, Contents(st), st.s.str_len)
                   ELSE m1
         IN  [s |-> [st.s EXCEPT !.buffer = new_buffer, !.buffer_len = new_len],
              m |-> Free(m2, st.s.buffer)]

\* ResizeBufferTo that doubles: new_len += new_len.
ResizeBufferToDouble(st, new_len, copy) ==
    IF new_len <= st.s.buffer_len THEN st
    ELSE LET m1 == Allocate(st.m, new_len + new_len)
             new_buffer == Len(m1)
             m2 == IF copy
                   THEN Memcpy(m1, new_buffer, 0, Contents(st), st.s.str_len)
                   ELSE m1
         IN  [s |-> [st.s EXCEPT !.buffer = new_buffer, !.buffer_len = new_len + new_len],
              m |-> Free(m2, st.s.buffer)]

\* ResizeBufferTo that never copies the current bytes.
ResizeBufferToNoCopy(st, new_len, copy) ==
    IF new_len <= st.s.buffer_len THEN st
    ELSE LET grown == new_len + (new_len \div 2)
             m1 == Allocate(st.m, grown)
         IN  [s |-> [st.s EXCEPT !.buffer = Len(m1), !.buffer_len = grown],
              m |-> Free(m1, st.s.buffer)]

\* ResizeBufferTo without ctx->Free(buffer).
ResizeBufferToNoFree(st, new_len, copy) ==
    IF new_len <= st.s.buffer_len THEN st
    ELSE LET grown == new_len + (new_len \div 2)
             m1 == Allocate(st.m, grown)
             new_buffer == Len(m1)
             m2 == IF copy
                   THEN Memcpy(m1, new_buffer, 0, Contents(st), st.s.str_len)
                   ELSE m1
         IN  [s |-> [st.s EXCEPT !.buffer = new_buffer, !.buffer_len = grown],
              m |-> m2]

ResizeBufferTo(st, new_len, copy) ==
    IF new_len <= st.s.buffer_len THEN st
    ELSE LET grown == new_len + (new_len \div 2)
             m1 == Allocate(st.m, grown)
             new_buffer == Len(m1)
             m2 == IF copy
                   THEN Memcpy(MemRead(m1, st.s.buffer, st.s.str_len),
                               new_buffer, 0, Contents(st), st.s.str_len)
                   ELSE m1
             m3 == Free(m2, st.s.buffer)
         IN  [s |-> [st.s EXCEPT !.buffer = new_buffer, !.buffer_len = grown],
              m |-> m3]

Set(st, sv) ==
    LET r == ResizeBufferTo(st, Len(sv), FALSE)
    IN  [s |-> [r.s EXCEPT !.str_len = Len(sv)],
         m |-> Memcpy(r.m, r.s.buffer, 0, sv, Len(sv))]

ScratchAppend(st, sv) ==
    IF Len(sv) = 0 THEN st
    ELSE LET new_len == st.s.str_len + Len(sv)
             r == IF new_len > st.s.buffer_len
                  THEN ResizeBufferTo(st, new_len, TRUE)
                  ELSE st
         IN  [s |-> [r.s EXCEPT !.str_len = new_len],
              m |-> Memcpy(r.m, r.s.buffer, r.s.str_len, sv, Len(sv))]

St(h) == [s |-> scratch[h], m |-> ctxmem[h]]

----------------------------------------------------------------------------
(* The text aggregate functions, as functions of the scratch state. *)

MinString(st, src) ==
    IF st.s.buffer = 0 \/ StringLess(src, Contents(st)) THEN Set(st, src) ELSE st

MaxString(st, src) ==
    IF st.s.buffer = 0 \/ StringLess(Contents(st), src) THEN Set(st, src) ELSE st

StringConcatScratch(st, src, separator) ==
    IF st.s.buffer = 0 THEN Set(st, src)
    ELSE LET d == IF separator.is_null THEN DEFAULT_STRING_CONCAT_DELIM.val
                  ELSE separator.val
         IN  ScratchAppend(ScratchAppend(st, d), src)

\* What SerializeScratch returns for a scratch state.
SerializeResult(st) ==
    IF st.s.buffer /= 0 THEN Str(Contents(st)) ELSE NullStr

----------------------------------------------------------------------------
(* The call log and the state every run starts in. *)

\* sizeof(StringValScratch): two ints and a pointer; the len of a scratch handle.
ScratchSize == 16

\* op: the function called; h: the accumulator it was called on; out: "returned",
\* "skipped" (returned early on a null input), "aborted" (a DCHECK failed) or
\* "crashed"; dst_len: len of the StringVal it was given as accumulator;
\* src_len: len of its StringVal source argument (0 when null or not a StringVal).
Call(op, h, out, dst_len, src_len) ==
    [op |-> op, h |-> h, out |-> out, dst_len |-> dst_len, src_len |-> src_len]

NullSlot == [is_null |-> TRUE, len |-> 0, ptr |-> 0]

NullAcc == [is_null |-> TRUE, val |-> 0]

\* No input and no bit access.
NoAccess == [v |-> 0, cols |-> {}]

Fresh ==
    /\ hs = [h \in Handles |-> "none"]
    /\ scratch = [h \in Handles |-> NewScratch]
    /\ ctxmem = [h \in Handles |-> <<>>]
    /\ result = [h \in Handles |-> NullStr]
    /\ sk = [h \in Handles |-> NullSlot]
    /\ bitmap = [h \in Handles |-> {}]
    /\ fin = [h \in Handles |-> NullSlot]
    /\ acc = [h \in Handles |-> NullAcc]
    /\ seen = [h \in Handles |-> {}]
    /\ calls = [h \in Handles |-> <<>>]
    /\ total = [h \in Handles |-> [k |-> 0, r |-> 0]]
    /\ ncalls = [h \in Handles |-> 0]
    /\ nrows = [h \in Handles |-> 0]
    /\ nundef = 0
    /\ access = NoAccess
    /\ last = Call("none", 0, "returned", 0, 0)
    /\ aborted = FALSE

----------------------------------------------------------------------------
(* Actions of the text accumulators. *)

TextAggs == {"min_string", "max_string", "string_concat"}

\* InitScratch: dst becomes a non-null handle to a new StringValScratch.
\* StringConcat has no merge in this file: its runs follow one accumulator.
InitScratch(h) ==
    /\ ~aborted
    /\ agg \in TextAggs
    /\ hs[h] = "none"
    /\ agg = "string_concat" => h = 1
    /\ hs' = [hs EXCEPT ![h] = "live"]
    /\ scratch' = [scratch EXCEPT ![h] = NewScratch]
    /\ last' = Call("InitScratch", h, "returned", ScratchSize, 0)
    /\ UNCHANGED <<agg, ctxmem, result, calls, seen, ncalls, aborted>>
    /\ UNCHANGED <<sketchvars, scalarvars>>

\* Min<StringVal> / Max<StringVal> on a live accumulator with a row's value.
MinMaxString(h, src) ==
    /\ ~aborted
    /\ agg \in {"min_string", "max_string"}
    /\ hs[h] = "live"
    /\ ncalls[h] < MaxCalls
    /\ IF src.is_null
       THEN /\ last' = Call(agg, h, "skipped", ScratchSize, 0)
            /\ UNCHANGED <<scratch, ctxmem, seen, ncalls>>
       ELSE LET r == IF agg = "min_string" THEN MinString(St(h), src.val)
                     ELSE MaxString(St(h), src.val)
            IN  /\ scratch' = [scratch EXCEPT ![h] = r.s]
                /\ ctxmem' = [ctxmem EXCEPT ![h] = r.m]
                /\ seen' = [seen EXCEPT ![h] = @ \cup {src.val}]
                /\ ncalls' = [ncalls EXCEPT ![h] = @ + 1]
                /\ last' = Call(agg, h, "returned", ScratchSize, Len(src.val))
    /\ UNCHANGED <<agg, hs, result, calls, aborted>>
    /\ UNCHANGED <<sketchvars, scalarvars>>

\* Min/Max as the merge step: the serialized result of partition p is fed to
\* the same function on the destination d.
MinMaxStringMerge(p, d) ==
    /\ ~aborted
    /\ agg \in {"min_string", "max_string"}
    /\ p < d
    /\ hs[p] = "done"
    /\ hs[d] = "live"
    /\ LET src == result[p]
       IN  IF src.is_null
           THEN /\ last' = Call("merge", d, "skipped", ScratchSize, 0)
                /\ UNCHANGED <<scratch, ctxmem, ncalls>>
           ELSE LET r == IF agg = "min_string" THEN MinString(St(d), src.val)
                         ELSE MaxString(St(d), src.val)
                IN  /\ ncalls[d] < MaxCalls
                    /\ scratch' = [scratch EXCEPT ![d] = r.s]
                    /\ ctxmem' = [ctxmem EXCEPT ![d] = r.m]
                    /\ ncalls' = [ncalls EXCEPT ![d] = @ + 1]
                    /\ last' = Call("merge", d, "returned", ScratchSize, Len(src.val))
    /\ seen' = [seen EXCEPT ![d] = @ \cup seen[p]]
    /\ UNCHANGED <<agg, hs, result, calls, aborted>>
    /\ UNCHANGED <<sketchvars, scalarvars>>

StringConcat(h, src, separator) ==
    /\ ~aborted
    /\ agg = "string_concat"
    /\ hs[h] = "live"
    /\ ncalls[h] < MaxConcatCalls
    /\ IF src.is_null
       THEN /\ last' = Call("StringConcat", h, "skipped", ScratchSize, 0)
            /\ UNCHANGED <<scratch, ctxmem, calls, ncalls>>
       ELSE LET r == StringConcatScratch(St(h), src.val, separator)
            IN  /\ scratch' = [scratch EXCEPT ![h] = r.s]
                /\ ctxmem' = [ctxmem EXCEPT ![h] = r.m]
                /\ calls' = [calls EXCEPT ![h] = Append(@, <<src.val, separator>>)]
                /\ ncalls' = [ncalls EXCEPT ![h] = @ + 1]
                /\ last' = Call("StringConcat", h, "returned", ScratchSize,
                                Len(src.val))
    /\ UNCHANGED <<agg, hs, result, seen, aborted>>
    /\ UNCHANGED <<sketchvars, scalarvars>>

\* SerializeScratch on a live handle: both DCHECKs pass, the result wraps the
\* buffer and the StringValScratch object is deleted.
SerializeScratch(h) ==
    /\ ~aborted
    /\ agg \in TextAggs
    /\ hs[h] = "live"
    /\ result' = [result EXCEPT ![h] = SerializeResult(St(h))]
    /\ hs' = [hs EXCEPT ![h] = "done"]
    /\ last' = Call("SerializeScratch", h, "returned", ScratchSize, 0)
    /\ UNCHANGED <<agg, scratch, ctxmem, calls, seen, ncalls, aborted>>
    /\ UNCHANGED <<sketchvars, scalarvars>>

\* SerializeScratch again on the same handle.  The StringVal is unchanged
\* (not null, len = sizeof(StringValScratch)), so both DCHECKs pass; the
\* function then reads and deletes an object that is already deleted.  The
\* build either crashes in the allocator or returns what the stale object
\* still holds; a handle whose second call returned is "dead".
SerializeScratchAgain(h) ==
    /\ ~aborted
    /\ agg \in TextAggs
    /\ hs[h] = "done"
    /\ \/ /\ aborted' = TRUE
          /\ last' = Call("SerializeScratch", h, "crashed", ScratchSize, 0)
          /\ UNCHANGED <<hs, result>>
       \/ /\ last' = Call("SerializeScratch", h, "returned", ScratchSize, 0)
          /\ result' = [result EXCEPT ![h] = SerializeResult(St(h))]
          /\ hs' = [hs EXCEPT ![h] = "dead"]
          /\ UNCHANGED aborted
    /\ UNCHANGED <<agg, scratch, ctxmem, calls, seen, ncalls>>
    /\ UNCHANGED <<sketchvars, scalarvars>>

InitText == agg \in TextAggs /\ Fresh

NextText ==
    \/ \E h \in Handles : InitScratch(h)
    \/ \E h \in Handles, src \in MinMaxInputs : MinMaxString(h, src)
    \/ \E p \in Handles, d \in Handles : MinMaxStringMerge(p, d)
    \/ \E h \in Handles, src \in ConcatValues, sep \in ConcatSeparators :
            StringConcat(h, src, sep)
    \/ \E h \in Handles : SerializeScratch(h)
    \/ \E h \in Handles : SerializeScratchAgain(h)

SpecText == InitText /\ [][NextText]_vars

----------------------------------------------------------------------------
(* The distinct-count sketch: a 64 x 32 bit matrix in a 256-byte region.    *)
(* A bitmap is the set of the positions of its set bits, position 8 * o + j *)
(* being bit j of the byte at offset o.  Row i is the uint32_t at offset     *)
(* 4 * i (little-endian, as on x86-64), so bit (i, c) is position 32 * i + c.*)

NUM_PC_BITMAPS == 64

PC_BITMAP_LENGTH == 32

\* NUM_PC_BITMAPS * PC_BITMAP_LENGTH / 8
BitmapBytes == (NUM_PC_BITMAPS * PC_BITMAP_LENGTH) \div 8

Rows == 0..(NUM_PC_BITMAPS - 1)

Offsets == 0..(BitmapBytes - 1)

\* memset(dst->ptr, 0, str_len)
ZeroBitmap == {}

\* The position of bit (row_index, c).
BitPos(row_index, c) == PC_BITMAP_LENGTH * row_index + c

RowOf(pos) == pos \div PC_BITMAP_LENGTH

\* The set bits of a byte value.
BitsOfByte(b) == {j \in 0..7 : (b \div (2 ^ j)) % 2 = 1}

RECURSIVE ByteOfBits(_)
ByteOfBits(S) ==
    IF S = {} THEN 0
    ELSE LET j == CHOOSE x \in S : TRUE
         IN  2 ^ j + ByteOfBits(S \ {j})

\* ptr[off]: the value of the byte at offset off.
ByteAt(bm, off) == ByteOfBits({j \in 0..7 : (8 * off + j) \in bm})

\* 1 << bit_index on a 32-bit int, as the set of columns of the mask it can
\* be.  A shift by 32 or more is undefined: x86 shifts by bit_index % 32,
\* other targets give 0.
ShiftMasks(bit_index) ==
    IF bit_index < PC_BITMAP_LENGTH THEN {{bit_index}}
    ELSE {{bit_index % PC_BITMAP_LENGTH}, {}}

\* SetDistinctEstimateBit with = in place of |=: the row is overwritten.
SetDistinctEstimateBitAssign(bm, row_index, mask) ==
    {pos \in bm : RowOf(pos) /= row_index} \cup {BitPos(row_index, c) : c \in mask}

\* int_bitmap[row_index] |= mask
SetDistinctEstimateBit(bm, row_index, mask) ==
    bm \cup {BitPos(row_index, c) : c \in mask}

\* (int_bitmap[row_index] & (1 << bit_index)) > 0, as the set of values it
\* can have (one value unless the shift is undefined).
GetDistinctEstimateBit(bm, row_index, bit_index) ==
    {\E c \in mask : BitPos(row_index, c) \in bm : mask \in ShiftMasks(bit_index)}

----------------------------------------------------------------------------
(* AnyValUtil::Hash (exprs/anyval-util.h): a deterministic 32-bit hash of   *)
(* (value, seed).  A hash is <<hi, lo>>, its two 16-bit halves.  The inputs *)
(* of the runs are the integers 1..4; with seed 0 they hash to 0, to 5      *)
(* (below 64), to 2^31 and to 64 + 3.                                       *)

SketchValues == 1..4

NullVal == [is_null |-> TRUE, val |-> 0]

SketchInputs == {NullVal} \cup {[is_null |-> FALSE, val |-> v] : v \in SketchValues}

Hash(v, seed) ==
    IF seed = 0
    THEN CASE v = 1 -> <<0, 0>>
           [] v = 2 -> <<0, 5>>
           [] v = 3 -> <<32768, 0>>
           [] OTHER -> <<0, 67>>
    ELSE IF v = 1 /\ seed % 16 = 1 THEN <<0, 0>>
    ELSE <<(v * 251 + seed * 7) % 65536,
           ((2 * v + 1) * (2 ^ ((v + seed) % 4))) % 65536>>

IsZero32(x) == x[1] = 0 /\ x[2] = 0

RECURSIVE Ctz(_)
Ctz(n) == IF n % 2 = 1 THEN 0 ELSE 1 + Ctz(n \div 2)

\* What __builtin_ctz returns for zero: undefined.  x86 gives 32 (tzcnt) or
\* leaves the destination register as it was (bsf), which can be any value.
\* The runs follow three of these outcomes: the lowest column, the highest
\* column and 32.
CtzOfZero == {0, PC_BITMAP_LENGTH - 1, PC_BITMAP_LENGTH}

\* __builtin_ctz(x) for a 32-bit <<hi, lo>>, as the set of values it can return.
BuiltinCtz(x) ==
    IF IsZero32(x) THEN CtzOfZero
    ELSE IF x[2] /= 0 THEN {Ctz(x[2])}
    ELSE {16 + Ctz(x[1])}

\* hash_value % NUM_PC_BITMAPS and hash_value / NUM_PC_BITMAPS
HashMod(x) == x[2] % NUM_PC_BITMAPS

HashDiv(x) ==
    LET q == x[1] * (65536 \div NUM_PC_BITMAPS) + (x[2] \div NUM_PC_BITMAPS)
    IN  <<q \div 65536, q % 65536>>

\* PcUpdate's bit_index without the test for a zero hash.
PcBitIndexNoGuard(hash_value) == BuiltinCtz(hash_value)

\* PcUpdate's bit_index for one row: the value taken from __builtin_ctz is
\* replaced by PC_BITMAP_LENGTH - 1 when the hash is zero.
PcBitIndex(hash_value) ==
    IF IsZero32(hash_value) THEN {PC_BITMAP_LENGTH - 1}
    ELSE BuiltinCtz(hash_value)

\* PcsaUpdate's bit_index: __builtin_ctz(hash_value / NUM_PC_BITMAPS), which
\* is taken of zero for every hash_value in 1..63.
PcsaBitIndex(hash_value) ==
    IF IsZero32(hash_value) THEN {PC_BITMAP_LENGTH - 1}
    ELSE BuiltinCtz(HashDiv(hash_value))

\* The mask PcUpdate sets in row i for the value v.
PcMask(v, i) ==
    LET bit_index == CHOOSE b \in PcBitIndex(Hash(v, i)) : TRUE
    IN  CHOOSE m \in ShiftMasks(bit_index) : TRUE

\* The bit_index values PcUpdate passes to SetDistinctEstimateBit for v.
PcBitIndexes(v) == {CHOOSE b \in PcBitIndex(Hash(v, i)) : TRUE : i \in Rows}

\* The bits of row i of a bitmap.
RowBits(bm, i) == {pos \in bm : RowOf(pos) = i}

\* PcUpdate's loop over the rows i = 0..63: iteration i sets one bit of row
\* i and touches no other row, so the result is, row by row, what iteration
\* i makes of that row.
PcUpdateLoop(bm, v) ==
    UNION {SetDistinctEstimateBit(RowBits(bm, i), i, PcMask(v, i)) : i \in Rows}

\* The bitmaps PcsaUpdate can leave for a non-null input.
PcsaUpdateBitmaps(bm, v) ==
    LET hash_value == Hash(v, 0)
        row_index == HashMod(hash_value)
    IN  {SetDistinctEstimateBit(bm, row_index, mask) :
            mask \in UNION {ShiftMasks(b) : b \in PcsaBitIndex(hash_value)}}

\* PcMerge's loop with = in place of |=: dst[i] = src[i].
PcMergeBytesAssign(dst, src) ==
    {pos \in dst : (pos \div 8) \notin Offsets} \cup {pos \in src : (pos \div 8) \in Offsets}

\* PcMerge's loop: dst[i] |= src[i] for the 256 bytes.
PcMergeBytes(dst, src) == dst \cup {pos \in src : (pos \div 8) \in Offsets}

----------------------------------------------------------------------------
(* DistinceEstimateFinalize.  The estimate is pow(2, avg) / PC_THETA with   *)
(* avg = sum / 64, truncated to int64_t by the callers.  It exceeds 2^31,   *)
(* so a number here is <<hi, lo>> = hi * 2^19 + lo.  With sum = 64 * q + r  *)
(* the truncated value is floor(2^(r/64) / PC_THETA * 2^38) shifted right   *)
(* by 38 - q; Pow2OverTheta tabulates the first factor for r in 0..63       *)
(* (PC_THETA = 0.77351f), which agrees with the double arithmetic of the    *)
(* code for every sum in 0..2048.                                           *)

Pow2OverTheta ==
    << <<677803, 417212>>, <<685184, 312050>>, <<692645, 401732>>, <<700188, 96534>>,
       <<707812, 384592>>, <<715520, 161941>>, <<723311, 426874>>, <<731188, 85693>>,
       <<739150, 147071>>, <<747199, 52091>>, <<755335, 295743>>, <<763560, 329834>>,
       <<771875, 135904>>, <<780280, 225292>>, <<788777, 66328>>, <<797366, 181546>>,
       <<806049, 50596>>, <<814826, 207454>>, <<823699, 143337>>, <<832668, 403912>>,
       <<841735, 492217>>, <<850901, 441580>>, <<860167, 291404>>, <<869534, 87229>>,
       <<879002, 405089>>, <<888574, 254425>>, <<898250, 223884>>, <<908031, 384236>>,
       <<917919, 288440>>, <<927915, 20295>>, <<938019, 194509>>, <<948233, 383910>>,
       <<958559, 168089>>, <<968997, 182056>>, <<979549, 19158>>, <<990215, 328310>>,
       <<1000998, 192628>>, <<1011898, 275235>>, <<1022917, 197899>>, <<1034056, 113976>>,
       <<1045316, 184202>>, <<1056699, 52482>>, <<1068205, 418840>>, <<1079837, 418056>>,
       <<1091596, 241196>>, <<1103483, 87111>>, <<1115499, 162530>>, <<1127646, 157851>>,
       <<1139925, 295811>>, <<1152338, 282990>>, <<1164886, 358482>>, <<1177571, 245402>>,
       <<1190394, 199559>>, <<1203356, 485257>>, <<1216460, 326809>>, <<1229707, 5786>>,
       <<1243097, 336823>>, <<1256634, 46273>>, <<1270317, 490895>>, <<1284150, 415075>>,
       <<1298134, 145226>>, <<1312270, 17025>>, <<1326559, 375513>>, <<1341005, 2332>> >>

\* The binary digits of Pow2OverTheta after the point.
FractionBits == 38

\* 2^19, the base of the two-part numbers.
Half == 524288

RECURSIVE ShiftRight(_, _)
ShiftRight(x, k) ==
    IF k = 0 THEN x
    ELSE ShiftRight(<<x[1] \div 2, (x[1] % 2) * (Half \div 2) + (x[2] \div 2)>>, k - 1)

\* DistinceEstimateFinalize without its early return for an empty bitmap.
IsEmptyBitmapNever(bm) == FALSE

\* is_empty: no byte of the bitmap is set.
IsEmptyBitmap(bm) == \A pos \in bm : (pos \div 8) \notin Offsets

\* The while loop with the bound PC_BITMAP_LENGTH - 1.
RECURSIVE RowBitCountShort(_, _, _)
RowBitCountShort(bm, i, row_bit_count) ==
    IF row_bit_count < PC_BITMAP_LENGTH - 1
       /\ BitPos(i, row_bit_count) \in bm
    THEN RowBitCountShort(bm, i, row_bit_count + 1)
    ELSE row_bit_count

\* The while loop of one row, from column row_bit_count on: the number of
\* set bits from column 0 up to the first unset one.  At row_bit_count = 32
\* the loop reads GetDistinctEstimateBit(.., 32) and then stops on its second
\* condition, whatever that read gave.
RECURSIVE RowBitCount(_, _, _)
RowBitCount(bm, i, row_bit_count) ==
    IF row_bit_count < PC_BITMAP_LENGTH
       /\ GetDistinctEstimateBit(bm, i, row_bit_count) = {TRUE}
    THEN RowBitCount(bm, i, row_bit_count + 1)
    ELSE row_bit_count

RECURSIVE SumRowBitCounts(_, _)
SumRowBitCounts(bm, i) ==
    IF i = NUM_PC_BITMAPS THEN 0
    ELSE RowBitCount(bm, i, 0) + SumRowBitCounts(bm, i + 1)

\* The bit_index values DistinceEstimateFinalize passes to
\* GetDistinctEstimateBit: in each row the columns 0..row_bit_count, the
\* last read being the one that ends the while loop.
FinalizeBitIndexes(bm) ==
    IF IsEmptyBitmap(bm) THEN {}
    ELSE UNION {0..RowBitCount(bm, i, 0) : i \in Rows}

\* (int64_t)(DistinceEstimateFinalize(src) * 2^scale): scale is 0 for
\* PcFinalize and 6 for PcsaFinalize, which multiplies by NUM_PC_BITMAPS.
DistinceEstimateFinalize(bm, scale) ==
    IF IsEmptyBitmap(bm) THEN <<0, 0>>
    ELSE LET sum == SumRowBitCounts(bm, 0)
             q == sum \div NUM_PC_BITMAPS
             r == sum % NUM_PC_BITMAPS
         IN  ShiftRight(Pow2OverTheta[r + 1], FractionBits - q - scale)

\* ss << result: the decimal digits of a non-negative int64_t, as ASCII.
RECURSIVE Digits(_)
Digits(x) ==
    IF x = <<0, 0>> THEN <<>>
    ELSE LET rest == (x[1] % 10) * Half + x[2]
         IN  Append(Digits(<<x[1] \div 10, rest \div 10>>), 48 + (rest % 10))

DecimalText(x) == IF x = <<0, 0>> THEN <<48>> ELSE Digits(x)

\* WriteText into a zeroed region: the bytes after the text are cleared.
WriteTextCleared(bm, str) ==
    UNION {{8 * (i - 1) + j : j \in BitsOfByte(str[i])} : i \in 1..Len(str)}

\* memcpy(dst.ptr, str.c_str(), str.length()) with dst.ptr = src.ptr.
WriteText(bm, str) ==
    {pos \in bm : pos \div 8 >= Len(str)}
    \cup UNION {{8 * (i - 1) + j : j \in BitsOfByte(str[i])} : i \in 1..Len(str)}

\* The text PcFinalize / PcsaFinalize produce for a bitmap.
PcFinalizeText(bm) == DecimalText(DistinceEstimateFinalize(bm, 0))

PcsaFinalizeText(bm) == DecimalText(DistinceEstimateFinalize(bm, 6))

----------------------------------------------------------------------------
(* Actions of the sketch.  A call is handed either the accumulator's slot   *)
(* (the StringVal PcInit filled: len 256) or, once the sketch is finalized, *)
(* the StringVal Finalize returned (same ptr, len = length of the text).    *)

SketchAggs == {"pc", "pcsa"}

Views == {"slot", "fin"}

View(h, v) == IF v = "fin" THEN fin[h] ELSE sk[h]

\* The caller updates and merges into the slot until it finalizes, and into
\* the finalized value afterwards.
DstView(h, v) ==
    \/ hs[h] = "live" /\ v = "slot"
    \/ hs[h] = "done" /\ v = "fin"

PcInit(h) ==
    /\ ~aborted
    /\ agg \in SketchAggs
    /\ hs[h] = "none"
    /\ hs' = [hs EXCEPT ![h] = "live"]
    /\ sk' = [sk EXCEPT ![h] = [is_null |-> FALSE, len |-> BitmapBytes, ptr |-> h]]
    /\ bitmap' = [bitmap EXCEPT ![h] = ZeroBitmap]
    /\ last' = Call("PcInit", h, "returned", BitmapBytes, 0)
    /\ access' = NoAccess
    /\ UNCHANGED <<agg, fin, nundef, seen, ncalls, aborted>>
    /\ UNCHANGED <<textvars, scalarvars>>

\* PcUpdate: no DCHECK; a non-null input sets one bit in each row.
PcUpdate(h, v, input) ==
    /\ ~aborted
    /\ agg = "pc"
    /\ DstView(h, v)
    /\ IF input.is_null
       THEN /\ last' = Call("PcUpdate", h, "skipped", View(h, v).len, 0)
            /\ access' = NoAccess
            /\ UNCHANGED <<bitmap, seen, ncalls>>
       ELSE /\ ncalls[h] < MaxCalls
            /\ bitmap' = [bitmap EXCEPT ![h] = PcUpdateLoop(@, input.val)]
            /\ access' = [v |-> input.val, cols |-> PcBitIndexes(input.val)]
            /\ seen' = [seen EXCEPT ![h] = @ \cup {input.val}]
            /\ ncalls' = [ncalls EXCEPT ![h] = @ + 1]
            /\ last' = Call("PcUpdate", h, "returned", View(h, v).len, 0)
    /\ UNCHANGED <<agg, hs, sk, fin, nundef, aborted>>
    /\ UNCHANGED <<textvars, scalarvars>>

\* The hash values whose hash_value / NUM_PC_BITMAPS is zero: 1..63.
TakesCtzOfZero(hash_value) ==
    ~IsZero32(hash_value) /\ IsZero32(HashDiv(hash_value))

\* PcsaUpdate: no DCHECK; a non-null input sets one bit of one row.
PcsaUpdate(h, v, input) ==
    /\ ~aborted
    /\ agg = "pcsa"
    /\ DstView(h, v)
    /\ IF input.is_null
       THEN /\ last' = Call("PcsaUpdate", h, "skipped", View(h, v).len, 0)
            /\ access' = NoAccess
            /\ UNCHANGED <<bitmap, seen, nundef, ncalls>>
       ELSE /\ ncalls[h] < MaxCalls
            /\ ncalls' = [ncalls EXCEPT ![h] = @ + 1]
            /\ IF TakesCtzOfZero(Hash(input.val, 0))
               THEN nundef < MaxUndef /\ nundef' = nundef + 1
               ELSE UNCHANGED nundef
            /\ \E bit_index \in PcsaBitIndex(Hash(input.val, 0)) :
                 \E mask \in ShiftMasks(bit_index) :
                    /\ bitmap' = [bitmap EXCEPT ![h] =
                            SetDistinctEstimateBit(@, HashMod(Hash(input.val, 0)), mask)]
                    /\ access' = [v |-> input.val, cols |-> {bit_index}]
            /\ seen' = [seen EXCEPT ![h] = @ \cup {input.val}]
            /\ last' = Call("PcsaUpdate", h, "returned", View(h, v).len, 0)
    /\ UNCHANGED <<agg, hs, sk, fin, aborted>>
    /\ UNCHANGED <<textvars, scalarvars>>

\* PcMerge(src = a view of p, dst = a view of d): the DCHECKs look at
\* src.is_null, dst->is_null and src.len only.
PcMerge(p, vp, d, vd) ==
    /\ ~aborted
    /\ agg \in SketchAggs
    /\ p < d \/ (p /= d /\ vp = "fin")
    /\ hs[p] \in {"live", "done"}
    /\ vp = "fin" => hs[p] = "done"
    /\ DstView(d, vd)
    /\ LET src == View(p, vp)
           dst == View(d, vd)
       IN  IF src.len /= BitmapBytes
           THEN /\ aborted' = TRUE
                /\ last' = Call("PcMerge", d, "aborted", dst.len, src.len)
                /\ UNCHANGED <<bitmap, seen>>
           ELSE /\ bitmap' = [bitmap EXCEPT ![d] = PcMergeBytes(@, bitmap[p])]
                /\ seen' = [seen EXCEPT ![d] = @ \cup seen[p]]
                /\ last' = Call("PcMerge", d, "returned", dst.len, src.len)
                /\ UNCHANGED aborted
    /\ access' = NoAccess
    /\ UNCHANGED <<agg, hs, sk, fin, nundef, ncalls>>
    /\ UNCHANGED <<textvars, scalarvars>>

\* PcFinalize / PcsaFinalize on a view of h.  DistinceEstimateFinalize
\* DCHECKs src.len; then the text is written at src.ptr and returned as a
\* StringVal with that ptr.  src itself (const) keeps its len.  The first
\* call that returns makes the handle "done", a second one "dead".
\* Partitions hand their bitmap to PcMerge; the destination is finalized.
FinalizeCall(op, h, v, str) ==
    /\ ~aborted
    /\ h = Destination
    /\ hs[h] \in {"live", "done"}
    /\ v = "fin" => hs[h] = "done"
    /\ LET src == View(h, v)
       IN  IF src.len /= BitmapBytes
           THEN /\ aborted' = TRUE
                /\ last' = Call(op, h, "aborted", src.len, 0)
                /\ access' = NoAccess
                /\ UNCHANGED <<hs, bitmap, fin>>
           ELSE /\ bitmap' = [bitmap EXCEPT ![h] = WriteText(@, str)]
                /\ fin' = [fin EXCEPT ![h] =
                              [is_null |-> FALSE, len |-> Len(str), ptr |-> src.ptr]]
                /\ hs' = [hs EXCEPT ![h] = IF @ = "live" THEN "done" ELSE "dead"]
                /\ last' = Call(op, h, "returned", src.len, 0)
                /\ access' = [v |-> 0, cols |-> FinalizeBitIndexes(bitmap[h])]
                /\ UNCHANGED aborted
    /\ UNCHANGED <<agg, sk, nundef, seen, ncalls>>
    /\ UNCHANGED <<textvars, scalarvars>>

PcFinalize(h, v) ==
    /\ agg = "pc"
    /\ FinalizeCall("PcFinalize", h, v, PcFinalizeText(bitmap[h]))

PcsaFinalize(h, v) ==
    /\ agg = "pcsa"
    /\ FinalizeCall("PcsaFinalize", h, v, PcsaFinalizeText(bitmap[h]))

InitSketch == agg \in SketchAggs /\ Fresh

NextSketch ==
    \/ \E h \in Handles : PcInit(h)
    \/ \E h \in Handles, v \in Views, input \in SketchInputs : PcUpdate(h, v, input)
    \/ \E h \in Handles, v \in Views, input \in SketchInputs : PcsaUpdate(h, v, input)
    \/ \E p \in Handles, vp \in Views, d \in Handles, vd \in Views : PcMerge(p, vp, d, vd)
    \/ \E h \in Handles, v \in Views : PcFinalize(h, v)
    \/ \E h \in Handles, v \in Views : PcsaFinalize(h, v)

SpecSketch == InitSketch /\ [][NextSketch]_vars

----------------------------------------------------------------------------
(* Scalar accumulators.  A BigIntVal's val is an int64_t, kept as its four  *)
(* 16-bit limbs <<w3, w2, w1, w0>> (two's complement, w3 the top limb).     *)

Limb == 65536

\* a + b on int64_t.  The add instruction wraps; the carry out of the top
\* limb is dropped.
Add64(a, b) ==
    LET s0 == a[4] + b[4]
        s1 == a[3] + b[3] + (s0 \div Limb)
        s2 == a[2] + b[2] + (s1 \div Limb)
        s3 == a[1] + b[1] + (s2 \div Limb)
    IN  <<s3 % Limb, s2 % Limb, s1 % Limb, s0 % Limb>>

Zero64 == <<0, 0, 0, 0>>

\* The int64_t that is congruent to k * 2^62 + r modulo 2^64, for a small r.
ToInt64(k, r) ==
    IF r >= 0 THEN <<(k % 4) * (Limb \div 4), 0, 0, r>>
    ELSE <<((k - 1) % 4) * (Limb \div 4) + (Limb \div 4 - 1), Limb - 1, Limb - 1, Limb + r>>

\* The numbers of the Sum runs, as [k, r] for k * 2^62 + r: 3, 7, 2, -1,
\* 2^63 - 1 (the largest int64_t) and -2^63 (the smallest).
SumNumbers ==
    {[k |-> 0, r |-> 3], [k |-> 0, r |-> 7], [k |-> 0, r |-> 2], [k |-> 0, r |-> -1],
     [k |-> 2, r |-> -1], [k |-> -2, r |-> 0]}

\* The AnyVals of the scalar runs; num is the number a BigIntVal stands for.
NullNum == [is_null |-> TRUE, val |-> Zero64, num |-> [k |-> 0, r |-> 0]]

SumInputs ==
    {NullNum} \cup {[is_null |-> FALSE, val |-> ToInt64(n.k, n.r), num |-> n] : n \in SumNumbers}

\* TinyIntVal values and TimestampVal values (<<date, time_of_day>>).
TinyInts == {-128, -1, 0, 127}

Timestamps == {<<1, 5>>, <<1, 9>>, <<2, 0>>}

ScalarInputs(a) ==
    LET vals == IF a \in {"min", "max"} THEN TinyInts ELSE Timestamps
    IN  {[is_null |-> TRUE, val |-> CHOOSE v \in vals : TRUE]}
        \cup {[is_null |-> FALSE, val |-> v] : v \in vals}

\* TimestampValue::operator< (runtime/timestamp-value.h): by date, then by
\* time of day.
TimestampLess(a, b) == a[1] < b[1] \/ (a[1] = b[1] /\ a[2] < b[2])

InitNull(dst) == [dst EXCEPT !.is_null = TRUE]

InitZero(dst) == [dst EXCEPT !.is_null = FALSE, !.val = Zero64]

\* Sum without the InitZero of a null accumulator.
SumNoInitZero(src, dst) ==
    IF src.is_null THEN dst
    ELSE [dst EXCEPT !.is_null = FALSE, !.val = Add64(@, src.val)]

Sum(src, dst) ==
    IF src.is_null THEN dst
    ELSE LET d == IF dst.is_null THEN InitZero(dst) ELSE dst
         IN  [d EXCEPT !.val = Add64(@, src.val)]

\* Min with the comparison of Max.
MinFlipped(src, dst) ==
    IF src.is_null THEN dst
    ELSE IF dst.is_null \/ src.val > dst.val THEN src
    ELSE dst

Min(src, dst) ==
    IF src.is_null THEN dst
    ELSE IF dst.is_null \/ src.val < dst.val THEN src
    ELSE dst

Max(src, dst) ==
    IF src.is_null THEN dst
    ELSE IF dst.is_null \/ src.val > dst.val THEN src
    ELSE dst

MinTimestamp(src, dst) ==
    IF src.is_null THEN dst
    ELSE IF dst.is_null THEN src
    ELSE IF TimestampLess(src.val, dst.val) THEN src
    ELSE dst

MaxTimestamp(src, dst) ==
    IF src.is_null THEN dst
    ELSE IF dst.is_null THEN src
    ELSE IF TimestampLess(dst.val, src.val) THEN src
    ELSE dst

----------------------------------------------------------------------------
(* Actions of the scalar accumulators. *)

ScalarAggs == {"sum", "min", "max", "min_timestamp", "max_timestamp"}

\* What an accumulator slot can hold before InitNull: memory nobody wrote.
SlotGarbage(a) ==
    IF a = "sum"
    THEN {[is_null |-> FALSE, val |-> ToInt64(0, 99)], [is_null |-> TRUE, val |-> Zero64]}
    ELSE {[is_null |-> FALSE, val |-> v] : v \in {s.val : s \in ScalarInputs(a)}}

\* The update function of the aggregate a, which is also its merge function.
ScalarUpdate(a, src, dst) ==
    CASE a = "sum" -> Sum(src, dst)
      [] a = "min" -> Min(src, dst)
      [] a = "max" -> Max(src, dst)
      [] a = "min_timestamp" -> MinTimestamp(src, dst)
      [] OTHER -> MaxTimestamp(src, dst)

InitNullCall(h) ==
    /\ ~aborted
    /\ agg \in ScalarAggs
    /\ hs[h] = "none"
    /\ hs' = [hs EXCEPT ![h] = "live"]
    /\ \E slot \in SlotGarbage(agg) : acc' = [acc EXCEPT ![h] = InitNull(slot)]
    /\ last' = Call("InitNull", h, "returned", 0, 0)
    /\ UNCHANGED <<agg, total, nrows, seen, ncalls, aborted>>
    /\ UNCHANGED <<textvars, sketchvars>>

\* Sum on a live accumulator with a row's value.
SumCall(h, src) ==
    /\ ~aborted
    /\ agg = "sum"
    /\ hs[h] = "live"
    /\ acc' = [acc EXCEPT ![h] = Sum(src, @)]
    /\ IF src.is_null
       THEN /\ last' = Call("Sum", h, "skipped", 0, 0)
            /\ UNCHANGED <<total, ncalls>>
       ELSE /\ ncalls[h] < MaxCalls
            /\ total' = [total EXCEPT ![h] = [k |-> @.k + src.num.k, r |-> @.r + src.num.r]]
            /\ ncalls' = [ncalls EXCEPT ![h] = @ + 1]
            /\ last' = Call("Sum", h, "returned", 0, 0)
    /\ UNCHANGED <<agg, hs, nrows, seen, aborted>>
    /\ UNCHANGED <<textvars, sketchvars>>

\* Min<T> / Max<T> on a live accumulator with a row's value; MinMaxCall is
\* the generic template (T = TinyIntVal), MinMaxTimestampCall the
\* TimestampVal specialization.
MinMaxAny(h, src) ==
    /\ ~aborted
    /\ hs[h] = "live"
    /\ acc' = [acc EXCEPT ![h] = ScalarUpdate(agg, src, @)]
    /\ IF src.is_null
       THEN /\ last' = Call(agg, h, "skipped", 0, 0)
            /\ UNCHANGED <<seen, ncalls>>
       ELSE /\ ncalls[h] < MaxCalls
            /\ seen' = [seen EXCEPT ![h] = @ \cup {src.val}]
            /\ ncalls' = [ncalls EXCEPT ![h] = @ + 1]
            /\ last' = Call(agg, h, "returned", 0, 0)
    /\ UNCHANGED <<agg, hs, total, nrows, aborted>>
    /\ UNCHANGED <<textvars, sketchvars>>

MinMaxCall(h, src) ==
    /\ agg \in {"min", "max"}
    /\ MinMaxAny(h, src)

MinMaxTimestampCall(h, src) ==
    /\ agg \in {"min_timestamp", "max_timestamp"}
    /\ MinMaxAny(h, src)

\* The merge step: the accumulator of partition p is handed, once, to the
\* aggregate's update function on the destination d.
ScalarMerge(p, d) ==
    /\ ~aborted
    /\ agg \in ScalarAggs
    /\ p < d
    /\ hs[p] = "live"
    /\ hs[d] = "live"
    /\ acc' = [acc EXCEPT ![d] = ScalarUpdate(agg, acc[p], @)]
    /\ hs' = [hs EXCEPT ![p] = "done"]
    /\ IF acc[p].is_null
       THEN /\ last' = Call("merge", d, "skipped", 0, 0)
            /\ UNCHANGED ncalls
       ELSE /\ ncalls[d] < MaxCalls
            /\ ncalls' = [ncalls EXCEPT ![d] = @ + 1]
            /\ last' = Call("merge", d, "returned", 0, 0)
    /\ total' = [total EXCEPT ![d] = [k |-> @.k + total[p].k, r |-> @.r + total[p].r]]
    /\ seen' = [seen EXCEPT ![d] = @ \cup seen[p]]
    /\ UNCHANGED <<agg, nrows, aborted>>
    /\ UNCHANGED <<textvars, sketchvars>>

----------------------------------------------------------------------------
(* The counters.  A slot no Init has written holds whatever its memory     *)
(* held; a call on it makes the handle "raw".                              *)

CountAggs == {"count", "count_star"}

One64 == <<0, 0, 0, 1>>

\* What an accumulator slot can hold before InitZero.
CountGarbage ==
    {[is_null |-> TRUE, val |-> Zero64], [is_null |-> FALSE, val |-> ToInt64(0, 99)]}

\* CountUpdate without the test of src.is_null.
CountUpdateAlways(src, dst) == [dst EXCEPT !.val = Add64(@, One64)]

\* CountUpdate after its DCHECK: if (!src.is_null) ++dst->val
CountUpdate(src, dst) ==
    IF src.is_null THEN dst ELSE [dst EXCEPT !.val = Add64(@, One64)]

\* CountStarUpdate after its DCHECK: ++dst->val
CountStarUpdate(dst) == [dst EXCEPT !.val = Add64(@, One64)]

InitZeroCall(h) ==
    /\ ~aborted
    /\ agg \in CountAggs
    /\ hs[h] = "none"
    /\ hs' = [hs EXCEPT ![h] = "live"]
    /\ \E slot \in CountGarbage : acc' = [acc EXCEPT ![h] = InitZero(slot)]
    /\ last' = Call("InitZero", h, "returned", 0, 0)
    /\ UNCHANGED <<agg, total, nrows, seen, ncalls, aborted>>
    /\ UNCHANGED <<textvars, sketchvars>>

\* A Count call on the slot of h with the row's value src (CountStarUpdate
\* takes no value: its rows are all counted).  DCHECK(!dst->is_null) comes
\* first.  A row is counted by CountStarUpdate always, by CountUpdate when
\* src is not null.
CountCall(op, h, src) ==
    /\ ~aborted
    /\ hs[h] \in {"none", "raw", "live"}
    /\ nrows[h] < MaxRows
    /\ \E dst \in (IF hs[h] = "none" THEN CountGarbage ELSE {acc[h]}) :
          IF dst.is_null
          THEN /\ aborted' = TRUE
               /\ acc' = [acc EXCEPT ![h] = dst]
               /\ last' = Call(op, h, "aborted", 0, 0)
               /\ UNCHANGED <<hs, nrows, ncalls>>
          ELSE /\ acc' = [acc EXCEPT ![h] = IF op = "CountUpdate"
                                             THEN CountUpdate(src, dst)
                                             ELSE CountStarUpdate(dst)]
               /\ hs' = [hs EXCEPT ![h] = IF @ = "none" THEN "raw" ELSE @]
               /\ nrows' = [nrows EXCEPT ![h] = @ + 1]
               /\ ncalls' = [ncalls EXCEPT ![h] =
                      IF op = "CountStarUpdate" \/ ~src.is_null THEN @ + 1 ELSE @]
               /\ last' = Call(op, h, "returned", 0, 0)
               /\ UNCHANGED aborted
    /\ UNCHANGED <<agg, total, seen>>
    /\ UNCHANGED <<textvars, sketchvars>>

CountUpdateCall(h, src) ==
    /\ agg = "count"
    /\ CountCall("CountUpdate", h, src)

CountStarUpdateCall(h) ==
    /\ agg = "count_star"
    /\ CountCall("CountStarUpdate", h, NullNum)

InitScalar == agg \in (ScalarAggs \cup CountAggs) /\ Fresh

NextScalar ==
    \/ \E h \in Handles : InitNullCall(h)
    \/ \E h \in Handles, src \in SumInputs : SumCall(h, src)
    \/ \E h \in Handles, src \in ScalarInputs("min") : MinMaxCall(h, src)
    \/ \E h \in Handles, src \in ScalarInputs("min_timestamp") : MinMaxTimestampCall(h, src)
    \/ \E p \in Handles, d \in Handles : ScalarMerge(p, d)
    \/ \E h \in Handles : InitZeroCall(h)
    \/ \E h \in Handles, src \in SumInputs : CountUpdateCall(h, src)
    \/ \E h \in Handles : CountStarUpdateCall(h)

SpecScalar == InitScalar /\ [][NextScalar]_vars

----------------------------------------------------------------------------
(* All the aggregate functions of the file. *)

Init == agg \in (TextAggs \cup SketchAggs \cup ScalarAggs \cup CountAggs) /\ Fresh

Next == NextText \/ NextSketch \/ NextScalar

Spec == Init /\ [][Next]_vars

----------------------------------------------------------------------------
(* Properties of the text accumulators (checked under SpecText). *)

\* The byte-lexicographic minimum and maximum of a non-empty set of strings.
LexMin(S) == CHOOSE x \in S : \A y \in S : ~StringLess(y, x)

LexMax(S) == CHOOSE x \in S : \A y \in S : ~StringLess(x, y)

\* C1: once a text Min (Max) accumulator that received at least one non-null
\* input, directly or through the serialized results of partitions, is
\* serialized, the result is the byte-lexicographic minimum (maximum) of all
\* its non-null inputs, the empty string included.
C1_SerializedIsLexMinMax ==
    \A h \in Handles :
        (agg \in {"min_string", "max_string"} /\ hs[h] = "done" /\ seen[h] /= {})
            => result[h] = Str(IF agg = "min_string" THEN LexMin(seen[h])
                               ELSE LexMax(seen[h]))

\* v1 + d2 + v2 + ... + dk + vk for the calls <<v1, s1>>, ..., <<vk, sk>>, with
\* di = si, or ", " when si is null.
RECURSIVE Joined(_)
Joined(cs) ==
    IF Len(cs) = 0 THEN <<>>
    ELSE IF Len(cs) = 1 THEN cs[1][1]
    ELSE LET c == cs[Len(cs)]
             d == IF c[2].is_null THEN <<44, 32>> ELSE c[2].val
         IN  Joined(SubSeq(cs, 1, Len(cs) - 1)) \o d \o c[1]

\* C2: once a StringConcat accumulator that received the non-null values
\* v1..vk (k >= 1) is serialized, the result is v1 + d2 + v2 + ... + dk + vk,
\* di being the separator of call i or ", " when that separator is null.
C2_SerializedIsJoined ==
    \A h \in Handles :
        (agg = "string_concat" /\ hs[h] = "done" /\ calls[h] /= <<>>)
            => result[h] = Str(Joined(calls[h]))

\* C6: a serialized scratch accumulator is null if and only if no call with
\* a non-null input (of any length) was made on it, and otherwise holds the
\* buffer's current bytes.
C6_NullIffNoEffectiveUpdate ==
    \A h \in Handles :
        hs[h] = "done"
            => /\ result[h].is_null <=> ncalls[h] = 0
               /\ ~result[h].is_null => result[h].val = Contents(St(h))

----------------------------------------------------------------------------
(* Properties of the sketch (checked under SpecSketch). *)

SketchUpdates == {"PcUpdate", "PcsaUpdate"}

SketchFinalizes == {"PcFinalize", "PcsaFinalize"}

\* C3: a PcUpdate or PcsaUpdate with a non-null input, or a PcMerge, whose
\* destination StringVal has a len other than 256, and a PcMerge whose
\* source has a len other than 256, ends in a failed DCHECK.
C3_WrongLengthAborts ==
    (/\ last.op \in SketchUpdates \cup {"PcMerge"}
     /\ last.out /= "skipped"
     /\ \/ last.dst_len /= BitmapBytes
        \/ last.op = "PcMerge" /\ last.src_len /= BitmapBytes)
        => last.out = "aborted"

\* C4 as claimed: a PcFinalize or PcsaFinalize that returns leaves all 256
\* bytes of every bitmap as they were.
C4_FinalizeKeepsBitmap ==
    [][(last'.op \in SketchFinalizes /\ last'.out = "returned") => bitmap' = bitmap]_vars

\* The bits of a bitmap in the bytes at offsets n and above.
BitsFrom(bm, n) == {pos \in bm : pos \div 8 >= n}

\* C4: a PcFinalize or PcsaFinalize that returns has written n ASCII decimal
\* digits (1 <= n <= 12) over the first n bytes of the bitmap it read and
\* returned a StringVal of len n at the bitmap's address; the bytes at
\* offsets n..255 of that bitmap, and every other bitmap, are as they were.
C4_FinalizeOverwritesPrefix ==
    [][(last'.op \in SketchFinalizes /\ last'.out = "returned")
        => LET h == last'.h
               n == fin'[h].len
           IN  /\ n \in 1..12
               /\ fin'[h].ptr = sk[h].ptr
               /\ ~fin'[h].is_null
               /\ \A off \in 0..(n - 1) : ByteAt(bitmap'[h], off) \in 48..57
               /\ BitsFrom(bitmap'[h], n) = BitsFrom(bitmap[h], n)
               /\ \A g \in Handles \ {h} : bitmap'[g] = bitmap[g]]_vars

\* A finalize returned on a bitmap that holds bits after the text it wrote.
C4_FinalizedNonEmptySketch ==
    /\ last.op \in SketchFinalizes
    /\ last.out = "returned"
    /\ fin[last.h].len >= 2
    /\ BitsFrom(bitmap[last.h], fin[last.h].len) /= {}

\* A bitmap with bits in the first, the second and the last row.
ThirdBitmap == {0, 37, 2047}

\* Merge(A, B) = Merge(B, A), Merge(Merge(A, B), C) = Merge(A, Merge(B, C))
\* and Merge(A, A) = A for the bitmaps of the accumulators and ThirdBitmap.
MergeAlgebra ==
    \A A, B, C \in {bitmap[h] : h \in Handles} \cup {ThirdBitmap} :
        /\ PcMergeBytes(A, B) = PcMergeBytes(B, A)
        /\ PcMergeBytes(PcMergeBytes(A, B), C) = PcMergeBytes(A, PcMergeBytes(B, C))
        /\ PcMergeBytes(A, A) = A

\* A PcMerge step changes no bitmap but its destination's.
MergeKeepsSource ==
    last'.op = "PcMerge" => \A h \in Handles \ {last'.h} : bitmap'[h] = bitmap[h]

\* C7: PcMerge's byte-wise OR is commutative, associative and idempotent on
\* 256-byte bitmaps, and a PcMerge leaves its source bitmap unchanged.
C7_MergeLaws == []MergeAlgebra /\ [][MergeKeepsSource]_vars

\* A PcMerge returned whose source held bits and whose destination holds
\* bits the source does not.
C7_MergedDistinctBitmaps ==
    /\ last.op = "PcMerge"
    /\ last.out = "returned"
    /\ \E p \in Handles \ {last.h} :
            /\ bitmap[p] /= {}
            /\ bitmap[p] /= bitmap[last.h]
            /\ hs[p] = "live"

\* C8: no PcUpdate, PcsaUpdate or PcMerge clears a bit: every bit set
\* before the call is set after it.
C8_BitsMonotone ==
    [][last'.op \in SketchUpdates \cup {"PcMerge"}
        => \A h \in Handles : bitmap[h] \subseteq bitmap'[h]]_vars

\* An update returned on an accumulator that had received another value.
C8_SecondUpdate ==
    /\ last.op \in SketchUpdates
    /\ last.out = "returned"
    /\ Cardinality(seen[last.h]) = 2
    /\ hs[last.h] = "live"

----------------------------------------------------------------------------
(* Properties of the lifecycle (checked under Spec). *)

\* C5: a SerializeScratch, PcFinalize or PcsaFinalize on a handle that was
\* already serialized or finalized ends in a failed DCHECK.
C5_SecondCallAborts ==
    [][(/\ last'.op \in SketchFinalizes \cup {"SerializeScratch"}
        /\ hs[last'.h] \in {"done", "dead"})
        => last'.out = "aborted"]_vars

----------------------------------------------------------------------------
(* Properties of the scalar accumulators (checked under SpecScalar). *)

\* C9: a Sum accumulator is null exactly as long as it has received no
\* non-null input, directly or merged from a partition, and otherwise holds
\* the arithmetic sum of its non-null inputs modulo 2^64.
C9_SumIsArithmeticSum ==
    \A h \in Handles :
        (agg = "sum" /\ hs[h] /= "none")
            => /\ acc[h].is_null <=> ncalls[h] = 0
               /\ ~acc[h].is_null => acc[h].val = ToInt64(total[h].k, total[h].r)

\* The destination holds 12 after a partition's partial sum was added to it.
C9_SumOfThreeAndSevenAndTwo ==
    /\ agg = "sum"
    /\ hs = [h \in Handles |-> IF h = Destination THEN "live" ELSE "done"]
    /\ ~acc[Destination].is_null
    /\ acc[Destination].val = <<0, 0, 0, 12>>
    /\ ncalls[Destination] = 2

\* The least and the greatest of a non-empty set under the domain's order.
LeastOf(S) ==
    IF agg \in {"min", "max"} THEN CHOOSE x \in S : \A y \in S : x <= y
    ELSE CHOOSE x \in S : \A y \in S : ~TimestampLess(y, x)

GreatestOf(S) ==
    IF agg \in {"min", "max"} THEN CHOOSE x \in S : \A y \in S : y <= x
    ELSE CHOOSE x \in S : \A y \in S : ~TimestampLess(x, y)

\* C10: a scalar Min (Max) accumulator started by InitNull is null exactly
\* as long as every input it received, directly or merged from a partition,
\* was null, and otherwise holds the minimum (maximum) of its non-null inputs.
C10_ScalarIsTrueMinMax ==
    \A h \in Handles :
        (agg \in ScalarAggs \ {"sum"} /\ hs[h] /= "none")
            => /\ acc[h].is_null <=> seen[h] = {}
               /\ ~acc[h].is_null
                    => acc[h].val = IF agg \in {"min", "min_timestamp"}
                                    THEN LeastOf(seen[h])
                                    ELSE GreatestOf(seen[h])

\* The destination of a Min run holds the least of three distinct inputs,
\* two of them merged from a partition.
C10_MinOfThreeAcrossPartitions ==
    /\ agg = "min"
    /\ hs = [h \in Handles |-> IF h = Destination THEN "live" ELSE "done"]
    /\ Cardinality(seen[Destination]) = 3
    /\ ~acc[Destination].is_null
    /\ acc[Destination].val = -128

CountOps == {"CountUpdate", "CountStarUpdate"}

\* C11: after InitZero, CountUpdate leaves the accumulator at the number of
\* non-null rows it was fed and CountStarUpdate at the number of its calls;
\* a Count call finds its destination null exactly when it ends in a failed
\* DCHECK.
C11_CountersCount ==
    /\ \A h \in Handles :
          (agg \in CountAggs /\ hs[h] = "live")
              => /\ ~acc[h].is_null
                 /\ ncalls[h] <= nrows[h]
                 /\ acc[h].val = ToInt64(0, IF agg = "count" THEN ncalls[h] ELSE nrows[h])
    /\ last.op \in CountOps => (acc[last.h].is_null <=> last.out = "aborted")

\* CountUpdate was fed four rows, one of them null, and holds 3.
C11_ThreeOfFourRows ==
    \E h \in Handles :
        /\ agg = "count"
        /\ hs[h] = "live"
        /\ nrows[h] = 4
        /\ ncalls[h] = 3
        /\ acc[h].val = <<0, 0, 0, 3>>

\* C12: a PcFinalize or PcsaFinalize that returns on an all-zero bitmap
\* returns the text "0": one byte, the digit 0.
C12_EmptySketchFinalizesToZero ==
    [][(/\ last'.op \in SketchFinalizes
        /\ last'.out = "returned"
        /\ bitmap[last'.h] = ZeroBitmap)
        => /\ fin'[last'.h].len = 1
           /\ ByteAt(bitmap'[last'.h], 0) = 48]_vars

\* The destination was finalized without any non-null input, next to a live
\* partition, and holds the text "0".
C12_FinalizedUntouchedSketch ==
    /\ last.op \in SketchFinalizes
    /\ last.out = "returned"
    /\ hs = [h \in Handles |-> IF h = Destination THEN "done" ELSE "live"]
    /\ seen[Destination] = {}
    /\ fin[Destination].len = 1
    /\ bitmap[Destination] = {4, 5}

----------------------------------------------------------------------------
(* StringValScratch on its own: Set and Append calls on the scratch object *)
(* of handle 1, as its constructor left it.  In an "append_run" the calls  *)
(* are single-byte Appends; in a "scratch_ops" run they are Sets and       *)
(* Appends of the ScratchStrings, each recorded in calls as <<op, sv>>.    *)

ScratchAggs == {"append_run", "scratch_ops"}

ScratchStrings == {<<>>, <<97>>, <<98, 99>>, <<100, 101, 102>>}

AppendByteCall ==
    /\ ~aborted
    /\ agg = "append_run"
    /\ ncalls[1] < MaxAppends
    /\ LET r == ScratchAppend(St(1), <<97>>)
       IN  /\ scratch' = [scratch EXCEPT ![1] = r.s]
           /\ ctxmem' = [ctxmem EXCEPT ![1] = r.m]
    /\ ncalls' = [ncalls EXCEPT ![1] = @ + 1]
    /\ last' = Call("Append", 1, "returned", 0, 1)
    /\ UNCHANGED <<agg, hs, result, calls, seen, aborted>>
    /\ UNCHANGED <<sketchvars, scalarvars>>

ScratchCall(op, sv, r) ==
    /\ ~aborted
    /\ ncalls[1] < MaxScratchOps
    /\ scratch' = [scratch EXCEPT ![1] = r.s]
    /\ ctxmem' = [ctxmem EXCEPT ![1] = r.m]
    /\ calls' = [calls EXCEPT ![1] = Append(@, <<op, sv>>)]
    /\ ncalls' = [ncalls EXCEPT ![1] = @ + 1]
    /\ last' = Call(op, 1, "returned", 0, Len(sv))
    /\ UNCHANGED <<agg, hs, result, seen, aborted>>
    /\ UNCHANGED <<sketchvars, scalarvars>>

SetCall(sv) ==
    /\ agg = "scratch_ops"
    /\ ScratchCall("Set", sv, Set(St(1), sv))

AppendCall(sv) ==
    /\ agg = "scratch_ops"
    /\ ScratchCall("Append", sv, ScratchAppend(St(1), sv))

InitScratchObject == agg \in ScratchAggs /\ Fresh

NextScratch ==
    \/ AppendByteCall
    \/ \E sv \in ScratchStrings : SetCall(sv)
    \/ \E sv \in ScratchStrings : AppendCall(sv)

SpecScratch == InitScratchObject /\ [][NextScratch]_vars

(* Properties of StringValScratch (checked under SpecScratch). *)

\* The size of the i-th region a run of single-byte Appends allocates: the
\* required length r is one more than the previous capacity, the new
\* capacity r + floor(r / 2).
RECURSIVE CapacityAfter(_)
CapacityAfter(i) ==
    IF i = 0 THEN 0
    ELSE LET r == CapacityAfter(i - 1) + 1
         IN  r + (r \div 2)

StAfter == [s |-> scratch'[1], m |-> ctxmem'[1]]

IsScratchCall == agg = "scratch_ops" /\ Len(calls'[1]) = Len(calls[1]) + 1

CalledOp == calls'[1][Len(calls'[1])][1]

CalledWith == calls'[1][Len(calls'[1])][2]

\* The length a call requires of the buffer.
Required ==
    IF CalledOp = "Set" THEN Len(CalledWith) ELSE scratch[1].str_len + Len(CalledWith)

\* A Set or Append allocates exactly when the required length n exceeds
\* the capacity, and the new capacity is then n + floor(n / 2).
ResizeOnlyWhenNeeded ==
    IsScratchCall
        => LET reallocated == Len(ctxmem'[1]) > Len(ctxmem[1])
           IN  /\ reallocated <=> Required > scratch[1].buffer_len
               /\ reallocated => /\ Len(ctxmem'[1]) = Len(ctxmem[1]) + 1
                                 /\ scratch'[1].buffer_len = Required + (Required \div 2)
                                 /\ scratch'[1].buffer_len >= Required
               /\ ~reallocated => scratch'[1].buffer_len = scratch[1].buffer_len

C18_SetAndAppendContents ==
    [][IsScratchCall
        => /\ CalledOp = "Set" => Contents(StAfter) = CalledWith
           /\ CalledOp = "Append" => Contents(StAfter) = Contents(St(1)) \o CalledWith
           /\ (CalledOp = "Append" /\ CalledWith = <<>>)
                => scratch'[1] = scratch[1] /\ ctxmem'[1] = ctxmem[1]]_vars

\* An Append that reallocated left "a" followed by "bc".
C18_AppendAcrossReallocation ==
    /\ agg = "scratch_ops"
    /\ calls[1] = << <<"Set", <<97>>>>, <<"Append", <<98, 99>>>> >>
    /\ Len(ctxmem[1]) = 2
    /\ Contents(St(1)) = <<97, 98, 99>>

----------------------------------------------------------------------------
(* Properties of the bits an update sets (checked under SpecSketch). *)

\* 2^c divides the 32-bit number x = <<hi, lo>>.
DividesPow2(c, x) ==
    IF c <= 16 THEN x[2] % (2 ^ c) = 0
    ELSE x[2] = 0 /\ x[1] % (2 ^ (c - 16)) = 0

\* The columns c in 0..31 that are the trailing-zero-count of x: one column
\* for x > 0, none for x = 0.
TrailingZeroColumns(x) ==
    {c \in 0..(PC_BITMAP_LENGTH - 1) : DividesPow2(c, x) /\ ~DividesPow2(c + 1, x)}

\* The column the stochastic-averaging update is to set for a hash.
PcsaColumns(hash_value) ==
    IF IsZero32(hash_value) THEN {PC_BITMAP_LENGTH - 1}
    ELSE TrailingZeroColumns(HashDiv(hash_value))

\* The column the plain update is to set in a row for the row's hash.
PcColumns(hash_value) ==
    IF IsZero32(hash_value) THEN {PC_BITMAP_LENGTH - 1}
    ELSE TrailingZeroColumns(hash_value)

\* C14: a PcsaUpdate with a non-null input of hash h sets exactly the bit
\* (h mod 64, c), c = 31 for h = 0 and the trailing-zero-count of h div 64
\* otherwise, a column in 0..31 for every h; no other bit changes.
C14_PcsaColumnWellDefined ==
    [][(last'.op = "PcsaUpdate" /\ last'.out = "returned")
        => LET hash_value == Hash(access'.v, 0)
           IN  /\ Cardinality(PcsaColumns(hash_value)) = 1
               /\ access'.cols = PcsaColumns(hash_value)
               /\ bitmap' = [bitmap EXCEPT ![last'.h] =
                      @ \cup {BitPos(HashMod(hash_value), c) : c \in PcsaColumns(hash_value)}]]_vars

\* For each input value the columns and bits the plain update is to set:
\* per row i the columns claimed for Hash(v, i).
PcClaimed ==
    {[v |-> v,
      single |-> \A i \in Rows : Cardinality(PcColumns(Hash(v, i))) = 1,
      cols |-> UNION {PcColumns(Hash(v, i)) : i \in Rows},
      bits |-> UNION {{BitPos(i, c) : c \in PcColumns(Hash(v, i))} : i \in Rows}]
        : v \in SketchValues}

\* C16: a PcUpdate with a non-null input ORs in, for each row i, the bit
\* (i, c_i), c_i = 31 for Hash(input, i) = 0 and the trailing-zero-count of
\* Hash(input, i) otherwise: one bit per row, 64 in all, and nothing else.
C16_PcUpdateOneBitPerRow ==
    [][(last'.op = "PcUpdate" /\ last'.out = "returned")
        => LET claimed == CHOOSE r \in PcClaimed : r.v = access'.v
           IN  /\ claimed.single
               /\ Cardinality(claimed.bits) = NUM_PC_BITMAPS
               /\ access'.cols = claimed.cols
               /\ bitmap' = [bitmap EXCEPT ![last'.h] = @ \cup claimed.bits]]_vars

\* A PcUpdate returned for the input whose hash is zero in rows 0, 1, 17,
\* 33 and 49, on a sketch that already held another input.
C16_UpdatedWithZeroHash ==
    /\ last.op = "PcUpdate"
    /\ last.out = "returned"
    /\ access.v = 1
    /\ IsZero32(Hash(1, 17))
    /\ BitPos(17, PC_BITMAP_LENGTH - 1) \in bitmap[last.h]
    /\ Cardinality(seen[last.h]) = 2
    /\ hs[last.h] = "live"

----------------------------------------------------------------------------
(* DistinceEstimateFinalize as a function of the bitmap: the destination    *)
(* holds a bitmap that updates and merges have filled, drawn from a sample, *)
(* and is finalized.  Hash(input, i) ranges over all 32-bit values, so the  *)
(* plain update can set every column of a row; the stochastic-averaging     *)
(* update sets the trailing-zero-count of hash / 64 < 2^26, a column in     *)
(* 0..25, (or column 31 of row 0).                                          *)

\* The columns of a sample row.
RowPatterns(a) ==
    {{}, {0}, {1}, {0, 1, 2}}
    \cup (IF a = "pc"
          THEN {0..(PC_BITMAP_LENGTH - 1), 0..(PC_BITMAP_LENGTH - 2)}
          ELSE {0..25})

\* The fullest row of the samples.
FullRow(a) == IF a = "pc" THEN 0..(PC_BITMAP_LENGTH - 1) ELSE 0..25

SampleRows == {0, 1, NUM_PC_BITMAPS - 1}

\* Bitmaps with the three sample rows filled, bitmaps with every row
\* alike, and bitmaps with every row full but the last.
SampleBitmaps(a) ==
    {UNION {{BitPos(i, c) : c \in f[i]} : i \in SampleRows} :
        f \in [SampleRows -> RowPatterns(a)]}
    \cup {UNION {{BitPos(i, c) : c \in P} : i \in Rows} : P \in RowPatterns(a)}
    \cup {UNION {{BitPos(i, c) : c \in (IF i = NUM_PC_BITMAPS - 1 THEN P ELSE FullRow(a))}
                    : i \in Rows} : P \in RowPatterns(a)}

InitFinalize ==
    /\ agg \in SketchAggs
    /\ hs = [h \in Handles |-> IF h = Destination THEN "live" ELSE "none"]
    /\ sk = [h \in Handles |-> IF h = Destination
                               THEN [is_null |-> FALSE, len |-> BitmapBytes, ptr |-> h]
                               ELSE NullSlot]
    /\ \E bm \in SampleBitmaps(agg) :
          bitmap = [h \in Handles |-> IF h = Destination THEN bm ELSE {}]
    /\ scratch = [h \in Handles |-> NewScratch]
    /\ ctxmem = [h \in Handles |-> <<>>]
    /\ result = [h \in Handles |-> NullStr]
    /\ fin = [h \in Handles |-> NullSlot]
    /\ acc = [h \in Handles |-> NullAcc]
    /\ seen = [h \in Handles |-> {}]
    /\ calls = [h \in Handles |-> <<>>]
    /\ total = [h \in Handles |-> [k |-> 0, r |-> 0]]
    /\ ncalls = [h \in Handles |-> 0]
    /\ nrows = [h \in Handles |-> 0]
    /\ nundef = 0
    /\ access = NoAccess
    /\ last = Call("none", 0, "returned", 0, 0)
    /\ aborted = FALSE

NextFinalize ==
    \/ \E h \in Handles, v \in Views : PcFinalize(h, v)
    \/ \E h \in Handles, v \in Views : PcsaFinalize(h, v)

SpecFinalize == InitFinalize /\ [][NextFinalize]_vars

----------------------------------------------------------------------------
(* Properties of the estimate (checked under SpecFinalize). *)

\* The bits of a bitmap that lie in the leading run of their row: every
\* column of the row from 0 up to theirs is set.  Their number is the sum
\* over the rows of the leading-run lengths, each at most 32.
LeadingRunBits(bm) ==
    {pos \in bm : \A c \in 0..(pos % PC_BITMAP_LENGTH) :
                     BitPos(RowOf(pos), c) \in bm}

\* floor(2^(sum / 64) / PC_THETA * 2^scale), in decimal digits.
EstimateText(sum, scale) ==
    DecimalText(ShiftRight(Pow2OverTheta[(sum % NUM_PC_BITMAPS) + 1],
                           FractionBits - (sum \div NUM_PC_BITMAPS) - scale))

\* The text a finalize left at the start of the bitmap of h.
TextWritten(h) == [k \in 1..fin'[h].len |-> ByteAt(bitmap'[h], k - 1)]

\* C15: on a non-empty bitmap the finalizers sum, over the 64 rows, the
\* number of consecutive set bits from column 0 to the first unset bit, 32
\* for a row with all 32 bits set; PcFinalize writes the estimate of the
\* average of these lengths, PcsaFinalize that estimate multiplied by 64.
C15_EstimateFromLeadingRuns ==
    [][(/\ last'.op \in SketchFinalizes
        /\ last'.out = "returned"
        /\ hs[last'.h] = "live"
        /\ bitmap[last'.h] /= ZeroBitmap)
        => LET sum == Cardinality(LeadingRunBits(bitmap[last'.h]))
           IN  TextWritten(last'.h) =
                  EstimateText(sum, IF last'.op = "PcsaFinalize" THEN 6 ELSE 0)]_vars

\* PcFinalize returned 5552568694 = floor(2^32 / PC_THETA) for the bitmap
\* whose 64 rows have all 32 bits set.
C15_FinalizedAllOnes ==
    /\ last.op = "PcFinalize"
    /\ last.out = "returned"
    /\ hs[Destination] = "done"
    /\ fin[Destination].len = 10
    /\ [k \in 1..10 |-> ByteAt(bitmap[Destination], k - 1)]
          = <<53, 53, 53, 50, 53, 54, 56, 54, 57, 52>>
    /\ \A pos \in 80..(NUM_PC_BITMAPS * PC_BITMAP_LENGTH - 1) : pos \in bitmap[Destination]

\* C20: every bit_index that PcUpdate, PcsaUpdate and
\* DistinceEstimateFinalize hand to SetDistinctEstimateBit and
\* GetDistinctEstimateBit is a column in 0..31 (the row index is the loop
\* counter i < 64 or hash_value % 64), also for a bitmap with a row whose
\* 32 bits are all set.
C20_AccessesInsideMatrix ==
    access.cols \subseteq 0..(PC_BITMAP_LENGTH - 1)

----------------------------------------------------------------------------
(* Properties of partitioned sketches (checked under SpecSketch). *)

\* The bitmap one update of a fresh sketch with the value v leaves.
UpdatedOnce(a, v) ==
    IF a = "pc" THEN PcUpdateLoop(ZeroBitmap, v)
    ELSE CHOOSE bm \in PcsaUpdateBitmaps(ZeroBitmap, v) : TRUE

\* The bitmap of one sketch updated with every value of S.
SingleSketch ==
    [a \in SketchAggs |->
        [S \in SUBSET SketchValues |-> UNION {UpdatedOnce(a, v) : v \in S}]]

\* C19: however the inputs are split into partitions and the partitions
\* merged, a sketch that was not finalized holds the bitmap that one sketch
\* updated with all the inputs it stands for holds.
C19_PartitioningKeepsSketch ==
    \A h \in Handles :
        (hs[h] = "live" /\ hs[Destination] \in {"none", "live"})
            => bitmap[h] = SingleSketch[agg][seen[h]]

----------------------------------------------------------------------------
(* Ownership of the scratch buffer (checked under SpecScratch). *)

\* The regions of the scratch of h that were allocated and not freed.
LiveRegions(h) == {i \in 1..Len(ctxmem[h]) : ~ctxmem[h][i].freed}

\* C21: after any Set and Append calls on a fresh scratch the regions
\* allocated and not freed are the one buffer points at, or none when
\* buffer is NULL; every region a reallocation replaced was freed exactly
\* once; no region was read or written after it was freed.
C21_ScratchOwnsOneRegion ==
    agg \in ScratchAggs
        => /\ LiveRegions(1) = (IF scratch[1].buffer = 0 THEN {} ELSE {scratch[1].buffer})
           /\ \A i \in 1..Len(ctxmem[1]) :
                 /\ ctxmem[1][i].frees = (IF i = scratch[1].buffer THEN 0 ELSE 1)
                 /\ ctxmem[1][i].freed <=> ctxmem[1][i].frees > 0
                 /\ ~ctxmem[1][i].stale

\* A Set and two Appends that each reallocated: two regions were replaced,
\* the second of them after its bytes were copied into the third.
C21_TwoRegionsReplaced ==
    /\ agg = "scratch_ops"
    /\ calls[1] = << <<"Set", <<97>>>>, <<"Append", <<98, 99>>>>,
                     <<"Append", <<100, 101, 102>>>> >>
    /\ Len(ctxmem[1]) = 3
    /\ scratch[1].buffer = 3
    /\ ctxmem[1][2].freed
    /\ Contents(St(1)) = <<97, 98, 99, 100, 101, 102>>

====
